---- MODULE Spec2Model ----
(***************************************************************************)
(* A model of bobscheme: the Scheme compiler of bob/compiler.py, which     *)
(* emits byteplay (CPython 2) instruction lists, the loader of bob/cmd.py  *)
(* that assembles and evaluates them, and the Bob bytecode serializer of   *)
(* bob/bytecode.py.                                                        *)
(***************************************************************************)
EXTENDS Integers, Sequences, FiniteSets, TLC

VARIABLES
    exprlist,   \* the parsed expressions handed to compile_code
    phase,      \* "parsed", "compiled", "written", "running", "done", "failed"
    error,      \* the exception that ended the run, "none" while there is none
    codes,      \* the byteplay Code objects compile built (labels unresolved)
    pyc,        \* the assembled code objects read back by run_compiled
    frames,     \* the CPython frame stack, innermost last
    result,     \* the value eval returned
    executed,   \* history: the <<code id, offset, opcode>> steps taken so far
    lastjump,   \* history: what the last POP_JUMP_IF_FALSE popped and did
    cobj,       \* the CodeObject handed to Serializer.serialize_bytecode
    sphase,     \* "idle", "object", "serialized", "decoded", "rejected"
    stream,     \* the serialized bytes
    decoded,    \* what the deserializer made of the bytes
    bobcode,    \* the top-level CodeObject handed to CodeGenerator.generate
    gphase,     \* "idle", "start", "loop", "body", "done", "failed"
    gerror,     \* the exception that ended generate, "none" while there is none
    self_ops,   \* self.ops: the Python instructions emitted so far
    scheme_functions,  \* self.scheme_functions: (label, bobcode, func_name) entries
    loop_i,     \* the index i of the loop of generate, from 0
    env,        \* the Environment chain of the function in translation, outermost first
    addr,       \* the address of the next Bob instruction of that function
    labels,     \* the keys of the labels dictionary of that function
    translated, \* history: the code objects passed to _function, in order
    embedded    \* history: the (index, code object) pairs op_function embedded

pyvars  == <<exprlist, phase, error, codes, pyc, frames, result, executed, lastjump>>
servars == <<cobj, sphase, stream, decoded>>
genvars == <<bobcode, gphase, gerror, self_ops, scheme_functions, loop_i, env, addr,
             labels, translated, embedded>>
vars    == <<pyvars, servars, genvars>>

----------------------------------------------------------------------------
(* Bounds of the model. *)

\* numeric literals of the generated programs range over 0..MaxNum
MaxNum == 2

----------------------------------------------------------------------------
(* Python values, and instruction arguments.  One record shape for all of  *)
(* them: t is the type, v the integer payload, s the string payload.       *)

Val(t, v, s) == [t |-> t, v |-> v, s |-> s]
IntV(n)      == Val("int", n, "")
BoolV(b)     == Val("bool", IF b THEN 1 ELSE 0, "")
NoneV        == Val("none", 0, "")
NameV(s)     == Val("name", 0, s)
LabelV(id)   == Val("label", id, "")
CodeV(id)    == Val("code", id, "")
FuncV(id)    == Val("func", id, "")
BuiltinV(s)  == Val("builtin", 0, s)
Unbound      == Val("unbound", 0, "")

----------------------------------------------------------------------------
(* The expression model of bob.expr, as the parser hands it to the         *)
(* compiler: a tagged tree.  Null is the empty list (), which no rule of   *)
(* the compiler recognises.                                                *)

Number(n)       == [tag |-> "Number", value |-> n]
Boolean(b)      == [tag |-> "Boolean", bvalue |-> b]
Symbol(s)       == [tag |-> "Symbol", name |-> s]
Null            == [tag |-> "Null"]
Quote(d)        == [tag |-> "quote", datum |-> d]
SetBang(x, e)   == [tag |-> "set!", variable |-> x, val |-> e]
Define(x, e)    == [tag |-> "define", variable |-> x, val |-> e]
If(p, c, a)     == [tag |-> "if", predicate |-> p, consequent |-> c, alternative |-> a]
Cond(cs)        == [tag |-> "cond", clauses |-> cs]
Let(xs, es, b)  == [tag |-> "let", names |-> xs, inits |-> es, letbody |-> b]
Lambda(ps, b)   == [tag |-> "lambda", parameters |-> ps, body |-> b]
Begin(es)       == [tag |-> "begin", actions |-> es]
App(f, es)      == [tag |-> "application", operator |-> f, operands |-> es]
Clause(t, e)    == [test |-> t, action |-> e]

is_self_evaluating(expr) == expr.tag \in {"Number", "Boolean"}
is_variable(expr)        == expr.tag = "Symbol"
is_quoted(expr)          == expr.tag = "quote"
is_assignment(expr)      == expr.tag = "set!"
is_definition(expr)      == expr.tag = "define"
is_if(expr)              == expr.tag = "if"
is_cond(expr)            == expr.tag = "cond"
is_let(expr)             == expr.tag = "let"
is_lambda(expr)          == expr.tag = "lambda"
is_begin(expr)           == expr.tag = "begin"
is_application(expr)     == expr.tag = "application"

\* expr.value of a Number or a Boolean: the Python int or bool
expr_value(expr) ==
    IF expr.tag = "Number" THEN IntV(expr.value) ELSE BoolV(expr.bvalue)

\* cond becomes nested ifs, the last alternative being #f
RECURSIVE expand_clauses(_, _)
expand_clauses(cs, k) ==
    IF k > Len(cs) THEN Boolean(FALSE)
    ELSE If(cs[k].test, cs[k].action, expand_clauses(cs, k + 1))

convert_cond_to_ifs(expr) == expand_clauses(expr.clauses, 1)

\* let becomes the application of a lambda to the initial values
convert_let_to_application(expr) ==
    App(Lambda([i \in 1..Len(expr.names) |-> Symbol(expr.names[i])], expr.letbody),
        expr.inits)

----------------------------------------------------------------------------
(* bob/compiler.py.  A compilation yields either an instruction list and   *)
(* the Code objects of the lambdas in it, or the exception raised.  Every  *)
(* node of the tree has an id (its path from the root), which stands for   *)
(* the identity of the Label and Code objects created while compiling it.  *)

Ok(ops, cs) == [err |-> "ok", ops |-> ops, codes |-> cs]
Raise(e)    == [err |-> e, ops |-> <<>>, codes |-> {}]

Child(p, k) == 16 * p + k

instr(opcode, arg) == <<[op |-> opcode, arg |-> arg]>>

\* the arguments are evaluated left to right: the first exception wins
instr_seq(a, b) ==
    IF a.err # "ok" THEN a
    ELSE IF b.err # "ok" THEN b
    ELSE Ok(a.ops \o b.ops, a.codes \cup b.codes)

Code(id, ops, args, newlocals) ==
    [id |-> id, ops |-> ops, args |-> args, newlocals |-> newlocals]

RECURSIVE comp(_, _)
RECURSIVE instr_pop_pairs(_, _, _)
RECURSIVE comp_args(_, _, _)
RECURSIVE arglist_ok(_, _)

\* a comp_exprlist that keeps the POP_TOP after the last expression
comp_exprlist_keep_pop(exprs, p) == instr_pop_pairs(exprs, p, 1)

comp_exprlist(exprs, p) ==
    LET r == instr_pop_pairs(exprs, p, 1)
    IN  IF r.err # "ok" THEN r
        ELSE Ok(IF Len(r.ops) > 0 THEN SubSeq(r.ops, 1, Len(r.ops) - 1) ELSE r.ops,
                r.codes)

instr_pop_pairs(exprs, p, k) ==
    IF k > Len(exprs) THEN Ok(<<>>, {})
    ELSE instr_seq(instr_seq(comp(exprs[k], Child(p, k)),
                             Ok(instr("POP_TOP", NoneV), {})),
                   instr_pop_pairs(exprs, p, k + 1))

comp_begin(exprs, p) == comp_exprlist(exprs, p)

comp_definition(expr, p) ==
    instr_seq(comp(expr.val, Child(p, 1)),
              Ok(instr("STORE_FAST", NameV(expr.variable))
                 \o instr("LOAD_CONST", NoneV), {}))

comp_assignment(expr, p) ==
    instr_seq(comp(expr.val, Child(p, 1)),
              Ok(instr("STORE_FAST", NameV(expr.variable)), {}))

comp_if(expr, p) ==
    LET label_else       == [op |-> "LABEL", arg |-> LabelV(2 * p)]
        label_after_else == [op |-> "LABEL", arg |-> LabelV(2 * p + 1)]
    IN  instr_seq(comp(expr.predicate, Child(p, 1)),
        instr_seq(Ok(instr("POP_JUMP_IF_FALSE", label_else.arg), {}),
        instr_seq(comp(expr.consequent, Child(p, 2)),
        instr_seq(Ok(instr("JUMP_ABSOLUTE", label_after_else.arg), {}),
        instr_seq(Ok(<<label_else>>, {}),
        instr_seq(comp(expr.alternative, Child(p, 3)),
                  Ok(<<label_after_else>>, {})))))))

\* the sanity check of the parameter list: only symbols are supported
arglist_ok(args, k) ==
    k > Len(args) \/ (args[k].tag = "Symbol" /\ arglist_ok(args, k + 1))

comp_lambda(expr, p) ==
    IF ~arglist_ok(expr.parameters, 1) THEN Raise("CompileError")
    ELSE LET arglist == [i \in 1..Len(expr.parameters) |-> expr.parameters[i].name]
             b       == instr_seq(comp_begin(expr.body, p),
                                  Ok(instr("RETURN_VALUE", NoneV), {}))
         IN  IF b.err # "ok" THEN b
             ELSE Ok(instr("LOAD_CONST", CodeV(p)) \o instr("MAKE_FUNCTION", IntV(0)),
                     b.codes \cup {Code(p, b.ops, arglist, TRUE)})

comp_args(args, p, k) ==
    IF k > Len(args) THEN Ok(<<>>, {})
    ELSE instr_seq(comp(args[k], Child(p, k + 1)), comp_args(args, p, k + 1))

\* a comp_application that emits the operands before the operator
comp_application_args_first(expr, p) ==
    LET compiled_args == comp_args(expr.operands, p, 1)
        compiled_op   == comp(expr.operator, Child(p, 1))
    IN  IF compiled_args.err # "ok" THEN compiled_args
        ELSE instr_seq(compiled_args,
             instr_seq(compiled_op,
                       Ok(instr("CALL_FUNCTION", IntV(Len(expr.operands))), {})))

\* the operands are compiled before the operator, and emitted after it
comp_application(expr, p) ==
    LET compiled_args == comp_args(expr.operands, p, 1)
        compiled_op   == comp(expr.operator, Child(p, 1))
    IN  IF compiled_args.err # "ok" THEN compiled_args
        ELSE instr_seq(compiled_op,
             instr_seq(compiled_args,
                       Ok(instr("CALL_FUNCTION", IntV(Len(expr.operands))), {})))

comp(expr, p) ==
    IF is_self_evaluating(expr) THEN Ok(instr("LOAD_CONST", expr_value(expr)), {})
    ELSE IF is_variable(expr) THEN Ok(instr("LOAD_NAME", NameV(expr.name)), {})
    ELSE IF is_quoted(expr) THEN Raise("NameError")   \* OP_CONST is not a name of the module
    ELSE IF is_assignment(expr) THEN comp_assignment(expr, p)
    ELSE IF is_definition(expr) THEN comp_definition(expr, p)
    ELSE IF is_if(expr) THEN comp_if(expr, p)
    ELSE IF is_cond(expr) THEN comp(convert_cond_to_ifs(expr), p)
    ELSE IF is_let(expr) THEN comp(convert_let_to_application(expr), p)
    ELSE IF is_lambda(expr) THEN comp_lambda(expr, p)
    ELSE IF is_begin(expr) THEN comp_begin(expr.actions, p)
    ELSE IF is_application(expr) THEN comp_application(expr, p)
    ELSE Raise("CompileError")

\* a compile that forgets the final RETURN_VALUE of the module
compile_no_return(exprs) ==
    LET m == comp_exprlist(exprs, 0)
    IN  IF m.err # "ok" THEN m
        ELSE Ok(m.ops, m.codes \cup {Code(0, m.ops, <<>>, FALSE)})

\* BobCompiler.compile: the top-level list, then RETURN_VALUE, as Code 0
compile(exprs) ==
    LET m == instr_seq(comp_exprlist(exprs, 0), Ok(instr("RETURN_VALUE", NoneV), {}))
    IN  IF m.err # "ok" THEN m
        ELSE Ok(m.ops, m.codes \cup {Code(0, m.ops, <<>>, FALSE)})

----------------------------------------------------------------------------
(* compile_file: codeobject.to_code() assembles every Code object.  The    *)
(* labels of the instruction list are pseudo-instructions; a label stands  *)
(* for the offset of the instruction that follows it.  Offsets count       *)
(* instructions, from 0.                                                   *)

IsLabel(i) == i.op = "LABEL"
IsJump(i)  == i.op \in {"POP_JUMP_IF_FALSE", "JUMP_ABSOLUTE"}

RECURSIVE RealBefore(_, _)
\* the number of real instructions among ops[1..k]
RealBefore(ops, k) ==
    IF k = 0 THEN 0
    ELSE RealBefore(ops, k - 1) + (IF IsLabel(ops[k]) THEN 0 ELSE 1)

LabelPos(ops, l) == CHOOSE k \in 1..Len(ops) : IsLabel(ops[k]) /\ ops[k].arg = l

LabelTarget(ops, l) == RealBefore(ops, LabelPos(ops, l))

Resolve(ops, i) ==
    IF IsJump(i) THEN [op |-> i.op, arg |-> IntV(LabelTarget(ops, i.arg))] ELSE i

to_code(c) ==
    LET real == SelectSeq(c.ops, LAMBDA i : ~IsLabel(i))
    IN  Code(c.id, [k \in 1..Len(real) |-> Resolve(c.ops, real[k])], c.args, c.newlocals)

\* what an instruction takes from the value stack, and what it leaves
Pops(i) ==
    CASE i.op \in {"STORE_FAST", "POP_TOP", "POP_JUMP_IF_FALSE",
                   "RETURN_VALUE", "MAKE_FUNCTION"} -> 1
      [] i.op = "CALL_FUNCTION" -> i.arg.v + 1
      [] OTHER -> 0

Pushes(i) ==
    CASE i.op \in {"LOAD_CONST", "LOAD_NAME", "MAKE_FUNCTION", "CALL_FUNCTION"} -> 1
      [] OTHER -> 0

RECURSIVE Walk(_, _, _)
\* every <<offset, depth before it>> some path from pc reaches; offset -1
\* stands for a pop from an empty stack or for running off the end
Walk(ops, pc, depth) ==
    IF pc >= Len(ops) THEN {<<-1, depth>>}
    ELSE LET i     == ops[pc + 1]
             after == depth - Pops(i) + Pushes(i)
         IN  IF depth < Pops(i) THEN {<<pc, depth>>, <<-1, depth>>}
             ELSE {<<pc, depth>>} \cup
                  (CASE i.op = "RETURN_VALUE" -> {}
                     [] i.op = "JUMP_ABSOLUTE" -> Walk(ops, i.arg.v, after)
                     [] i.op = "POP_JUMP_IF_FALSE" ->
                            Walk(ops, pc + 1, after) \cup Walk(ops, i.arg.v, after)
                     [] OTHER -> Walk(ops, pc + 1, after))

\* to_code computes the stack size, and refuses code that pops from an
\* empty stack or reaches one offset with two depths
StackConsistent(ops) ==
    LET w == Walk(ops, 0, 0)
    IN  \A x \in w : x[1] # -1 /\ \A y \in w : x[1] = y[1] => x[2] = y[2]

CodeOf(cs, id) == CHOOSE c \in cs : c.id = id

----------------------------------------------------------------------------
(* run_compiled: eval(code, {'+': ..., 'write': ...}).  The CPython frame  *)
(* of a code object holds its fast locals (arguments and STORE_FAST        *)
(* targets) apart from the dictionaries LOAD_NAME searches.                *)

Names == {"x", "y", "a", "b", "f", "+", "write"}

Globals(name) ==
    IF name \in {"+", "write"} THEN BuiltinV(name) ELSE Unbound

\* the locals dictionary: the globals for the module (newlocals is False),
\* a fresh dictionary, which no emitted instruction writes, for a lambda
f_locals(c, name) == IF c.newlocals THEN Unbound ELSE Globals(name)

LookupName(c, name) ==
    IF f_locals(c, name) # Unbound THEN f_locals(c, name) ELSE Globals(name)

Frame(id, fast) == [code |-> id, pc |-> 0, stack |-> <<>>, fast |-> fast]

NoFast == [n \in Names |-> Unbound]

\* Python truth of a value, as POP_JUMP_IF_FALSE tests it
Truthy(v) == ~(v.t \in {"int", "bool", "none"} /\ v.v = 0)

Top         == frames[Len(frames)]
TopCode     == CodeOf(pyc, Top.code)
Running     == phase = "running" /\ Len(frames) > 0 /\ Top.pc < Len(TopCode.ops)
CurInstr    == TopCode.ops[Top.pc + 1]
At(opcode)  == Running /\ CurInstr.op = opcode
Peek(k)     == Top.stack[Len(Top.stack) - k]          \* k = 0 is the top
Popped(k)   == SubSeq(Top.stack, 1, Len(Top.stack) - k)
SetTop(f)   == [frames EXCEPT ![Len(frames)] = f]
Step        == executed' = Append(executed, <<Top.code, Top.pc, CurInstr.op>>)

Fail(e) ==
    /\ phase' = "failed"
    /\ error' = e
    /\ frames' = <<>>

RECURSIVE SumArgs(_, _)
SumArgs(args, k) == IF k > Len(args) THEN 0 ELSE args[k].v + SumArgs(args, k + 1)

----------------------------------------------------------------------------
(* The programs the model compiles.                                        *)

Lits     == {Number(n) : n \in 0..MaxNum} \cup {Boolean(TRUE), Boolean(FALSE)}
Atoms    == Lits \cup {Symbol("x")}
Shapes   == Atoms \cup {Null}
Sum(a, b) == App(Symbol("+"), <<a, b>>)

\* one form over atoms
Forms ==
    {If(p, c, a) : p \in Shapes, c \in {Number(1), Null}, a \in {Number(MaxNum), Symbol("x")}}
    \cup {SetBang("x", e) : e \in Shapes}
    \cup {Define("x", e) : e \in Shapes}
    \cup {Quote(e) : e \in {Symbol("a"), Number(1)}}
    \cup {Begin(<<>>)} \cup {Begin(<<a>>) : a \in Shapes}
    \cup {Begin(<<a, b>>) : a \in Atoms, b \in Shapes}
    \cup {Sum(a, b) : a, b \in Shapes}
    \cup {App(Symbol("write"), <<a>>) : a \in Atoms}
    \cup {App(a, <<>>) : a \in Atoms}
    \cup {Lambda(<<Symbol("a")>>, <<b>>) : b \in Shapes \cup {Symbol("a")}}
    \cup {Lambda(<<p>>, <<Symbol("a")>>) : p \in {Number(1), Null, Symbol("a")}}
    \cup {Cond(<<Clause(p, Number(1))>>) : p \in Atoms}
    \cup {Cond(<<Clause(p, Number(1)), Clause(Boolean(TRUE), Number(MaxNum))>>) : p \in Atoms}
    \cup {Let(<<"a">>, <<e>>, <<b>>) : e \in Lits, b \in {Symbol("a"), Number(1)}}

\* forms nested in forms
Ifs == {If(p, Number(1), Number(MaxNum)) : p \in Lits}

Nested ==
    {If(p, c, a) : p \in Ifs \cup {Boolean(FALSE)}, c \in Ifs, a \in Ifs \cup {Number(0)}}
    \cup {If(p, c, a) : p \in {Number(0)}, c \in {Define("x", Number(1)), Quote(Symbol("a"))},
                        a \in {SetBang("x", Number(1)), Null, Number(1)}}
    \cup {Lambda(<<Symbol("a")>>, <<i>>) : i \in Ifs}
    \cup {App(Lambda(<<Symbol("a")>>, <<If(Symbol("a"), Number(1), Number(MaxNum))>>), <<e>>) :
              e \in Lits}
    \cup {App(Lambda(<<Symbol("a"), Symbol("b")>>, <<b>>), <<e, Number(MaxNum)>>) :
              e \in Lits, b \in {Sum(Symbol("a"), Symbol("b")), Number(1), Symbol("b")}}
    \cup {App(Lambda(<<Symbol("a")>>, <<Number(1)>>), es) :
              es \in {<<>>, <<Number(1), Number(1)>>}}
    \cup {App(Lambda(<<>>, <<Lambda(<<>>, <<e>>)>>), <<>>) : e \in Shapes}
    \cup {Begin(<<Quote(Symbol("a")), Null>>), Begin(<<Null, Quote(Symbol("a"))>>),
          Sum(Quote(Symbol("a")), Null), Sum(Null, Quote(Symbol("a"))),
          App(Null, <<Quote(Symbol("a"))>>),
          Sum(Sum(Number(1), Null), Number(1)),
          Lambda(<<Number(1)>>, <<Quote(Symbol("a"))>>),
          Begin(<<Lambda(<<Symbol("a"), Null>>, <<Number(1)>>)>>),
          Define("f", Lambda(<<Symbol("a")>>, <<Begin(<<Number(1), Null>>)>>))}
    \cup {Begin(<<a, If(a, Number(1), Number(MaxNum)), Sum(Number(1), a)>>) : a \in Atoms}
    \cup {Lambda(<<Symbol("a")>>, <<Define("x", Number(1)), a, Sum(Symbol("a"), a)>>) :
              a \in Atoms}
    \cup {App(Lambda(<<>>, <<Number(1), a, Sum(Number(1), a)>>), <<>>) : a \in Lits}

\* the end-to-end scenarios
Scenarios ==
    { <<Define("x", Number(5)), Symbol("x")>>,
      <<If(Boolean(FALSE), Number(1), Number(2))>>,
      <<App(Lambda(<<Symbol("a"), Symbol("b")>>, <<Sum(Symbol("a"), Symbol("b"))>>),
            <<Number(3), Number(4)>>)>>,
      <<Define("x", Number(1)), SetBang("x", Number(2)), Symbol("x")>>,
      <<Define("f", Lambda(<<Symbol("a")>>, <<Symbol("a")>>)), App(Symbol("f"), <<Number(1)>>)>> }

Programs ==
    {<<>>} \cup {<<e>> : e \in Forms \cup Nested \cup Atoms}
    \cup {<<Define("x", v), e>> : v \in Lits,
              e \in {Symbol("x"), SetBang("x", Number(1)), If(Symbol("x"), Number(1), Number(MaxNum))}}
    \cup {<<e, i>> : e \in Atoms, i \in Ifs}
    \cup {<<i, e>> : i \in Ifs, e \in Atoms}
    \cup Scenarios

----------------------------------------------------------------------------
(* The pipeline: compile_code, compile_file's to_code and write,           *)
(* run_compiled's read and eval, then the evaluation loop of the           *)
(* interpreter, one instruction a step.                                    *)

\* the code generator of bob2py before it is used
GenIdle ==
    /\ bobcode = Null
    /\ gphase = "idle"
    /\ gerror = "none"
    /\ self_ops = <<>>
    /\ scheme_functions = <<>>
    /\ loop_i = 0
    /\ env = <<>>
    /\ addr = 0
    /\ labels = {}
    /\ translated = <<>>
    /\ embedded = <<>>

Init ==
    /\ GenIdle
    /\ exprlist \in Programs
    /\ phase = "parsed"
    /\ error = "none"
    /\ codes = {}
    /\ pyc = {}
    /\ frames = <<>>
    /\ result = Unbound
    /\ executed = <<>>
    /\ lastjump = [value |-> Unbound, taken |-> FALSE]
    /\ cobj = Null
    /\ sphase = "idle"
    /\ stream = <<>>
    /\ decoded = Null

CompileCode ==
    /\ phase = "parsed"
    /\ LET r == compile(exprlist)
       IN  /\ phase' = IF r.err = "ok" THEN "compiled" ELSE "failed"
           /\ error' = IF r.err = "ok" THEN "none" ELSE r.err
           /\ codes' = r.codes
    /\ UNCHANGED <<exprlist, pyc, frames, result, executed, lastjump>>
    /\ UNCHANGED servars
    /\ UNCHANGED genvars

WriteCode ==
    /\ phase = "compiled"
    /\ LET out == {to_code(c) : c \in codes}
       IN  IF \A c \in out : StackConsistent(c.ops)
           THEN phase' = "written" /\ pyc' = out /\ error' = error
           ELSE phase' = "failed" /\ pyc' = pyc /\ error' = "ValueError"
    /\ UNCHANGED <<exprlist, codes, frames, result, executed, lastjump>>
    /\ UNCHANGED servars
    /\ UNCHANGED genvars

RunCompiled ==
    /\ phase = "written"
    /\ phase' = "running"
    /\ frames' = <<Frame(0, NoFast)>>
    /\ UNCHANGED <<exprlist, error, codes, pyc, result, executed, lastjump>>
    /\ UNCHANGED servars
    /\ UNCHANGED genvars

LOAD_CONST ==
    /\ At("LOAD_CONST")
    /\ frames' = SetTop([Top EXCEPT !.pc = @ + 1, !.stack = Append(@, CurInstr.arg)])
    /\ Step
    /\ UNCHANGED <<exprlist, phase, error, codes, pyc, result, lastjump>>
    /\ UNCHANGED servars
    /\ UNCHANGED genvars

LOAD_NAME ==
    /\ At("LOAD_NAME")
    /\ LET v == LookupName(TopCode, CurInstr.arg.s)
       IN  IF v = Unbound
           THEN Fail("NameError")
           ELSE /\ frames' = SetTop([Top EXCEPT !.pc = @ + 1, !.stack = Append(@, v)])
                /\ UNCHANGED <<phase, error>>
    /\ Step
    /\ UNCHANGED <<exprlist, codes, pyc, result, lastjump>>
    /\ UNCHANGED servars
    /\ UNCHANGED genvars

STORE_FAST ==
    /\ At("STORE_FAST")
    /\ frames' = SetTop([Top EXCEPT !.pc = @ + 1, !.stack = Popped(1),
                                    !.fast[CurInstr.arg.s] = Peek(0)])
    /\ Step
    /\ UNCHANGED <<exprlist, phase, error, codes, pyc, result, lastjump>>
    /\ UNCHANGED servars
    /\ UNCHANGED genvars

POP_TOP ==
    /\ At("POP_TOP")
    /\ frames' = SetTop([Top EXCEPT !.pc = @ + 1, !.stack = Popped(1)])
    /\ Step
    /\ UNCHANGED <<exprlist, phase, error, codes, pyc, result, lastjump>>
    /\ UNCHANGED servars
    /\ UNCHANGED genvars

POP_JUMP_IF_FALSE ==
    /\ At("POP_JUMP_IF_FALSE")
    /\ frames' = SetTop([Top EXCEPT !.pc = IF Truthy(Peek(0)) THEN @ + 1 ELSE CurInstr.arg.v,
                                    !.stack = Popped(1)])
    /\ lastjump' = [value |-> Peek(0), taken |-> ~Truthy(Peek(0))]
    /\ Step
    /\ UNCHANGED <<exprlist, phase, error, codes, pyc, result>>
    /\ UNCHANGED servars
    /\ UNCHANGED genvars

JUMP_ABSOLUTE ==
    /\ At("JUMP_ABSOLUTE")
    /\ frames' = SetTop([Top EXCEPT !.pc = CurInstr.arg.v])
    /\ Step
    /\ UNCHANGED <<exprlist, phase, error, codes, pyc, result, lastjump>>
    /\ UNCHANGED servars
    /\ UNCHANGED genvars

MAKE_FUNCTION ==
    /\ At("MAKE_FUNCTION")
    /\ frames' = SetTop([Top EXCEPT !.pc = @ + 1,
                                    !.stack = Append(Popped(1), FuncV(Peek(0).v))])
    /\ Step
    /\ UNCHANGED <<exprlist, phase, error, codes, pyc, result, lastjump>>
    /\ UNCHANGED servars
    /\ UNCHANGED genvars

CALL_FUNCTION ==
    /\ At("CALL_FUNCTION")
    /\ LET n      == CurInstr.arg.v
           args   == SubSeq(Top.stack, Len(Top.stack) - n + 1, Len(Top.stack))
           callee == Peek(n)
           caller == [Top EXCEPT !.pc = @ + 1, !.stack = Popped(n + 1)]
           push(v) == frames' = SetTop([caller EXCEPT !.stack = Append(@, v)])
       IN  CASE callee = BuiltinV("+") ->
                    IF \A k \in 1..n : args[k].t \in {"int", "bool"}
                    THEN push(IntV(SumArgs(args, 1))) /\ UNCHANGED <<phase, error>>
                    ELSE Fail("TypeError")
             [] callee = BuiltinV("write") ->
                    push(NoneV) /\ UNCHANGED <<phase, error>>
             [] callee.t = "func" ->
                    LET c == CodeOf(pyc, callee.v)
                    IN  IF Len(c.args) # n THEN Fail("TypeError")
                        ELSE /\ frames' = Append(SetTop(caller),
                                    Frame(c.id, [m \in Names |->
                                        IF \E k \in 1..n : c.args[k] = m
                                        THEN args[CHOOSE k \in 1..n : c.args[k] = m]
                                        ELSE Unbound]))
                             /\ UNCHANGED <<phase, error>>
             [] OTHER -> Fail("TypeError")
    /\ Step
    /\ UNCHANGED <<exprlist, codes, pyc, result, lastjump>>
    /\ UNCHANGED servars
    /\ UNCHANGED genvars

RETURN_VALUE ==
    /\ At("RETURN_VALUE")
    /\ IF Len(frames) = 1
       THEN /\ result' = Peek(0)
            /\ phase' = "done"
            /\ frames' = <<>>
       ELSE /\ frames' = [SubSeq(frames, 1, Len(frames) - 1) EXCEPT
                              ![Len(frames) - 1].stack = Append(@, Peek(0))]
            /\ UNCHANGED <<phase, result>>
    /\ Step
    /\ UNCHANGED <<exprlist, error, codes, pyc, lastjump>>
    /\ UNCHANGED servars
    /\ UNCHANGED genvars

Next ==
    \/ CompileCode
    \/ WriteCode
    \/ RunCompiled
    \/ LOAD_CONST
    \/ LOAD_NAME
    \/ STORE_FAST
    \/ POP_TOP
    \/ POP_JUMP_IF_FALSE
    \/ JUMP_ABSOLUTE
    \/ MAKE_FUNCTION
    \/ CALL_FUNCTION
    \/ RETURN_VALUE

Spec == Init /\ [][Next]_vars

----------------------------------------------------------------------------
(* bob/bytecode.py: the Bob VM bytecode model and its serializer.  A byte  *)
(* string is a sequence of numbers 0..255.                                 *)

OP_CONST    == 0
OP_LOADVAR  == 16
OP_STOREVAR == 17
OP_DEFVAR   == 18
OP_FUNCTION == 32
OP_POP      == 48
OP_JUMP     == 64
OP_FJUMP    == 65
OP_RETURN   == 80
OP_CALL     == 81

Opcodes == {OP_CONST, OP_LOADVAR, OP_STOREVAR, OP_DEFVAR, OP_FUNCTION,
            OP_POP, OP_JUMP, OP_FJUMP, OP_RETURN, OP_CALL}

MAGIC_CONST == 68363

TYPE_NULL       == 48
TYPE_BOOLEAN    == 98
TYPE_STRING     == 115
TYPE_NUMBER     == 110
TYPE_PAIR       == 112
TYPE_INSTR      == 105
TYPE_SEQUENCE   == 91
TYPE_CODEOBJECT == 99

\* instruction arguments of the generated code objects range over 0..MaxArg
\* and over the values around 2^24
MaxArg == 1

Pair(a, b)  == [tag |-> "Pair", first |-> a, second |-> b]
PyStr(s)    == [tag |-> "str", name |-> s]
Instruction(opcode, arg) == [tag |-> "Instruction", opcode |-> opcode, arg |-> arg]
CodeObject(name, args, constants, varnames, code) ==
    [tag |-> "CodeObject", coname |-> name, args |-> args, constants |-> constants,
     varnames |-> varnames, code |-> code]

\* the characters of the strings the model uses
Strings == Names \cup {"", "lambda"}

Bytes(s) ==
    CASE s = ""       -> <<>>
      [] s = "x"      -> <<120>>
      [] s = "y"      -> <<121>>
      [] s = "a"      -> <<97>>
      [] s = "b"      -> <<98>>
      [] s = "f"      -> <<102>>
      [] s = "+"      -> <<43>>
      [] s = "write"  -> <<119, 114, 105, 116, 101>>
      [] s = "lambda" -> <<108, 97, 109, 98, 100, 97>>

\* utils.pack_word(word, big_endian=False): 4 bytes, least significant first
pack_word(w) ==
    <<w % 256, (w \div 256) % 256, (w \div 65536) % 256, (w \div 16777216) % 256>>

s_word(wordvalue) == pack_word(wordvalue)

s_string(string) == <<TYPE_STRING>> \o s_word(Len(Bytes(string))) \o Bytes(string)

s_null == <<TYPE_NULL>>

s_boolean(bool) == <<TYPE_BOOLEAN, IF bool.bvalue THEN 1 ELSE 0>>

s_number(number) == <<TYPE_NUMBER>> \o s_word(number.value)

s_symbol(symbol) == s_string(symbol.name)

\* arg = instr.arg or 0; (opcode << 24) | (arg & 0xFFFFFF)
s_instruction(i) ==
    LET arg        == IF i.arg = NoneV THEN 0 ELSE i.arg.v
        instr_word == i.opcode * 16777216 + (arg % 16777216)
    IN  <<TYPE_INSTR>> \o s_word(instr_word)

RECURSIVE s_object(_)
RECURSIVE s_join(_, _)

\* ''.join(self._s_object(obj) for obj in seq)
s_join(seq, k) ==
    IF k > Len(seq) THEN <<>> ELSE s_object(seq[k]) \o s_join(seq, k + 1)

\* an s_sequence that writes the number of elements where the code writes
\* the byte length of the encoded elements
s_sequence_count(seq) ==
    LET payload == s_join(seq, 1)
    IN  <<TYPE_SEQUENCE>> \o s_word(Len(seq)) \o payload

s_sequence(seq) ==
    LET payload == s_join(seq, 1)
    IN  <<TYPE_SEQUENCE>> \o s_word(Len(payload)) \o payload

s_pair(pair) == <<TYPE_PAIR>> \o s_object(pair.first) \o s_object(pair.second)

s_codeobject(codeobject) ==
    <<TYPE_CODEOBJECT>>
    \o s_string(codeobject.coname)
    \o s_sequence(codeobject.args)
    \o s_sequence(codeobject.constants)
    \o s_sequence(codeobject.varnames)
    \o s_sequence(codeobject.code)

\* the dispatch on the type of the object
s_object(obj) ==
    CASE obj.tag = "Null"        -> s_null
      [] obj.tag = "Boolean"     -> s_boolean(obj)
      [] obj.tag = "Number"      -> s_number(obj)
      [] obj.tag = "Symbol"      -> s_symbol(obj)
      [] obj.tag = "Pair"        -> s_pair(obj)
      [] obj.tag = "Instruction" -> s_instruction(obj)
      [] obj.tag = "CodeObject"  -> s_codeobject(obj)
      [] obj.tag = "str"         -> s_string(obj.name)

serialize_bytecode(codeobject) == s_word(MAGIC_CONST) \o s_codeobject(codeobject)

----------------------------------------------------------------------------
(* The Deserializer bob2py reads its input with: the inverse of the        *)
(* layout, a value per tag byte.  A position is an index into the bytes,   *)
(* from 1; a decoding returns the value and the position after it.         *)

FormatError == [tag |-> "FormatError"]

D(v, n) == [val |-> v, next |-> n]

d_word(b, p) == b[p] + 256 * b[p + 1] + 65536 * b[p + 2] + 16777216 * b[p + 3]

StringOf(bs) == CHOOSE s \in Strings : Bytes(s) = bs

d_string(b, p) ==
    LET n == d_word(b, p + 1)
    IN  D(PyStr(StringOf(SubSeq(b, p + 5, p + 4 + n))), p + 5 + n)

d_instruction(b, p) ==
    LET w == d_word(b, p + 1)
    IN  D(Instruction(w \div 16777216, IntV(w % 16777216)), p + 5)

RECURSIVE d_object(_, _)
RECURSIVE d_elements(_, _, _)

d_elements(b, p, end) ==
    IF p >= end THEN <<>>
    ELSE LET o == d_object(b, p) IN <<o.val>> \o d_elements(b, o.next, end)

d_sequence(b, p) ==
    LET n == d_word(b, p + 1)
    IN  D(d_elements(b, p + 5, p + 5 + n), p + 5 + n)

d_pair(b, p) ==
    LET first  == d_object(b, p + 1)
        second == d_object(b, first.next)
    IN  D(Pair(first.val, second.val), second.next)

d_codeobject(b, p) ==
    LET name      == d_string(b, p + 1)
        args      == d_sequence(b, name.next)
        constants == d_sequence(b, args.next)
        varnames  == d_sequence(b, constants.next)
        code      == d_sequence(b, varnames.next)
    IN  D(CodeObject(name.val.name, args.val, constants.val, varnames.val, code.val),
          code.next)

d_object(b, p) ==
    CASE b[p] = TYPE_NULL       -> D(Null, p + 1)
      [] b[p] = TYPE_BOOLEAN    -> D(Boolean(b[p + 1] = 1), p + 2)
      [] b[p] = TYPE_NUMBER     -> D(Number(d_word(b, p + 1)), p + 5)
      [] b[p] = TYPE_STRING     -> d_string(b, p)
      [] b[p] = TYPE_PAIR       -> d_pair(b, p)
      [] b[p] = TYPE_INSTR      -> d_instruction(b, p)
      [] b[p] = TYPE_SEQUENCE   -> d_sequence(b, p)
      [] b[p] = TYPE_CODEOBJECT -> d_codeobject(b, p)
      [] OTHER                  -> D(FormatError, Len(b) + 1)

deserialize_bytecode(b) ==
    IF Len(b) < 5 \/ d_word(b, 1) # MAGIC_CONST \/ b[5] # TYPE_CODEOBJECT
    THEN FormatError
    ELSE d_codeobject(b, 5).val

----------------------------------------------------------------------------
(* The code objects the model serializes.                                  *)

ArgValues ==
    {NoneV} \cup {IntV(n) : n \in 0..MaxArg}
    \cup {IntV(16777215), IntV(16777216), IntV(16777216 + MaxArg)}

ConstVals ==
    {Null, Boolean(TRUE), Boolean(FALSE), Symbol("x"),
     Pair(Symbol("a"), Number(1)), Pair(Number(1), Pair(Boolean(TRUE), Null))}
    \cup {Number(n) : n \in 0..MaxNum}

InnerCode(c) ==
    CodeObject("", <<PyStr("a")>>, <<c>>, <<PyStr("a"), PyStr("+")>>,
               <<Instruction(OP_LOADVAR, IntV(0)), Instruction(OP_POP, NoneV),
                 Instruction(OP_CONST, IntV(0)), Instruction(OP_RETURN, NoneV)>>)

CodeObjects ==
    {CodeObject("", <<>>, <<c>>, <<PyStr("x")>>,
                <<Instruction(op, a), Instruction(OP_RETURN, NoneV)>>) :
         c \in ConstVals, op \in {OP_CONST, OP_JUMP, OP_CALL}, a \in ArgValues}
    \cup {CodeObject("", <<>>, <<c, InnerCode(d)>>, <<>>,
                <<Instruction(OP_CONST, IntV(0)), Instruction(OP_POP, NoneV),
                  Instruction(OP_FUNCTION, IntV(1)), Instruction(OP_RETURN, IntV(0))>>) :
         c, d \in ConstVals}
    \cup {CodeObject("", <<>>, <<c>>, <<>>, <<Instruction(op, IntV(0))>>) :
         c \in ConstVals, op \in Opcodes}

InitSer ==
    /\ GenIdle
    /\ exprlist = <<>>
    /\ phase = "idle"
    /\ error = "none"
    /\ codes = {}
    /\ pyc = {}
    /\ frames = <<>>
    /\ result = Unbound
    /\ executed = <<>>
    /\ lastjump = [value |-> Unbound, taken |-> FALSE]
    /\ cobj \in CodeObjects
    /\ sphase = "object"
    /\ stream = <<>>
    /\ decoded = Null

Serialize ==
    /\ sphase = "object"
    /\ stream' = serialize_bytecode(cobj)
    /\ sphase' = "serialized"
    /\ UNCHANGED <<cobj, decoded>>
    /\ UNCHANGED pyvars
    /\ UNCHANGED genvars

Deserialize ==
    /\ sphase = "serialized"
    /\ decoded' = deserialize_bytecode(stream)
    /\ sphase' = IF decoded' = FormatError THEN "rejected" ELSE "decoded"
    /\ UNCHANGED <<cobj, stream>>
    /\ UNCHANGED pyvars
    /\ UNCHANGED genvars

NextSer ==
    \/ Serialize
    \/ Deserialize

SpecSer == InitSer /\ [][NextSer]_vars

----------------------------------------------------------------------------
(* bob2py.py: the translation of a Bob code object into one Python code    *)
(* object.  Environment is the compile-time scope chain, here a sequence   *)
(* of scopes with the outermost first; CodeGenerator.generate walks the    *)
(* growing list scheme_functions and hands each entry to _function, which  *)
(* dispatches every Bob instruction to its op_ handler.                    *)

\* an entry (type, arg) of Environment.vars; NoBinding stands for no entry
Binding(type, arg) == [type |-> type, arg |-> arg]
NoBinding          == Binding("NONE", NoneV)

Environment(parent) ==
    Append(parent, [vars |-> [n \in Names |-> NoBinding], locals |-> <<>>])

\* the assertion of set_var, name not in self.vars, is checked by the caller
set_var(chain, name, type, arg) ==
    [chain EXCEPT ![Len(chain)].vars[name] = Binding(type, arg)]

\* list_find_or_append(lst, item): the index of item in lst, from 0, after
\* appending it when it is not there
list_find_or_append(lst, item) ==
    IF \E k \in 1..Len(lst) : lst[k] = item
    THEN [idx |-> (CHOOSE k \in 1..Len(lst) : lst[k] = item) - 1, lst |-> lst]
    ELSE [idx |-> Len(lst), lst |-> Append(lst, item)]

local_index(chain, name) ==
    LET scope == chain[Len(chain)]
        found == list_find_or_append(scope.locals, name)
    IN  IF scope.vars[name] # NoBinding
        THEN IF scope.vars[name].type = "LOCAL"
             THEN [err |-> "ok", idx |-> scope.vars[name].arg.v, env |-> chain]
             ELSE [err |-> "AssertionError", idx |-> 0, env |-> chain]
        ELSE [err |-> "ok", idx |-> found.idx,
              env |-> [chain EXCEPT ![Len(chain)].locals = found.lst,
                                    ![Len(chain)].vars[name] =
                                        Binding("LOCAL", IntV(found.idx))]]

RECURSIVE lookup_var(_, _)
\* NoBinding stands for the KeyError of the outermost scope
lookup_var(chain, name) ==
    IF chain = <<>> THEN NoBinding
    ELSE IF chain[Len(chain)].vars[name] # NoBinding
         THEN chain[Len(chain)].vars[name]
         ELSE lookup_var(SubSeq(chain, 1, Len(chain) - 1), name)

\* the global environment of generate: the builtins
GlobalEnv == set_var(Environment(<<>>), "+", "BUILTIN", BuiltinV("+"))

RECURSIVE set_args(_, _, _)
\* env.set_var(arg, 'ARG', i) for each argument of the code object
set_args(chain, args, k) ==
    IF k > Len(args) THEN [err |-> "ok", env |-> chain]
    ELSE IF chain[Len(chain)].vars[args[k].name] # NoBinding
         THEN [err |-> "AssertionError", env |-> chain]
         ELSE set_args(set_var(chain, args[k].name, "ARG", IntV(k - 1)), args, k + 1)

\* bi_add: asserts n > 0, then fails at self.instr(ROT_TWO), which lacks
\* the argument of instr
bi_add(n) ==
    IF n > 0
    THEN [err |-> "TypeError",
          ops |-> instr("LOAD_FAST", NameV("S")) \o instr("DUP_TOP", NoneV)
                  \o instr("LOAD_ATTR", NameV("pop")) \o instr("CALL_FUNCTION", IntV(0))]
    ELSE [err |-> "AssertionError", ops |-> <<>>]

\* self.instr(LOAD_FAST, "S"); self.instr(LOAD_ATTR, "append")
PushOpen  == instr("LOAD_FAST", NameV("S")) \o instr("LOAD_ATTR", NameV("append"))
\* self.instr(CALL_FUNCTION, 1); self.instr(POP_TOP, None)
PushClose == instr("CALL_FUNCTION", IntV(1)) \o instr("POP_TOP", NoneV)

\* label, bobcode, func_name = self.scheme_functions[i]
CurCode    == scheme_functions[loop_i + 1].bobcode
CurBob     == CurCode.code[addr + 1]
OpStep(opcode) ==
    gphase = "body" /\ addr < Len(CurCode.code) /\ CurBob.opcode = opcode
\* if addr in labels: self.instr((labels[addr], None)), one argument short
LabelHere  == addr \in labels
InRange(seq, n) == n < Len(seq)

GenFail(e, emitted) ==
    /\ gphase' = "failed"
    /\ gerror' = e
    /\ self_ops' = self_ops \o emitted
    /\ addr' = addr

Advance(emitted) ==
    /\ self_ops' = self_ops \o emitted
    /\ addr' = addr + 1
    /\ UNCHANGED <<gphase, gerror>>

----------------------------------------------------------------------------
(* The code objects the model translates, as the Deserializer hands them   *)
(* over: names are strings, every instruction has a numeric argument.      *)

BobInstr(opcode, n) == Instruction(opcode, IntV(n))
Ret      == BobInstr(OP_RETURN, 0)
VarNames == <<PyStr("x"), PyStr("a"), PyStr("+")>>
Leaf(n) == CodeObject("", <<>>, <<Number(n)>>, <<>>, <<BobInstr(OP_CONST, 0), Ret>>)

\* a code object that creates each of its children, in order
Node(children, tail) ==
    CodeObject("", <<>>, children, <<>>,
               [k \in 1..Len(children) |-> BobInstr(OP_FUNCTION, k - 1)] \o tail)

BobCodes ==
    LET VarInstrs == {BobInstr(o, n) : o \in {OP_LOADVAR, OP_STOREVAR, OP_DEFVAR},
                                       n \in 0..(Len(VarNames) - 1)}
        \* a procedure of one parameter a that works on variables
        VarBody(i1, i2) ==
            CodeObject("", <<PyStr("a")>>, <<Number(1)>>, VarNames, <<i1, i2, Ret>>)
        \* a top level that defines x and creates the procedure
        VarTop(inner) ==
            CodeObject("", <<>>, <<Number(1), inner>>, VarNames,
                       <<BobInstr(OP_CONST, 0), BobInstr(OP_DEFVAR, 0),
                         BobInstr(OP_FUNCTION, 1), Ret>>)
        Leaves == {Leaf(n) : n \in 0..MaxArg}
        Mids   == Leaves \cup {Node(<<l>>, <<Ret>>) : l \in Leaves}
                      \cup {Node(<<l, l>>, <<Ret>>) : l \in Leaves}
        \* after the creation of two children: a return, a call, or a jump
        \* to the return
        Tails  == {<<Ret>>, <<BobInstr(OP_CALL, 0), Ret>>, <<BobInstr(OP_JUMP, 3), Ret>>}
    IN  {VarTop(VarBody(i1, i2)) : i1, i2 \in VarInstrs}
        \cup {CodeObject("", <<>>, <<Number(1)>>, VarNames, <<i1, i2, Ret>>) :
                  i1, i2 \in VarInstrs}
        \cup {CodeObject("", <<>>, <<c>>, VarNames, <<BobInstr(op, k), Ret>>) :
                  c \in {Number(MaxNum), Boolean(TRUE), Null}, op \in Opcodes,
                  k \in 0..MaxArg}
        \cup {Node(<<>>, <<Ret>>)} \cup {Node(<<a>>, <<Ret>>) : a \in Mids}
        \cup {Node(<<a, b>>, t) : a, b \in Mids, t \in Tails}
        \cup {CodeObject("", <<>>, <<Leaf(0), Leaf(1)>>, <<>>, c) :
                  c \in {<<BobInstr(OP_FUNCTION, 0), BobInstr(OP_FUNCTION, 0), Ret>>,
                         <<BobInstr(OP_FUNCTION, 1), Ret>>,
                         <<BobInstr(OP_FUNCTION, 1), BobInstr(OP_FUNCTION, 0),
                           BobInstr(OP_FUNCTION, 1), Ret>>}}
        \cup {CodeObject("", <<PyStr("a"), PyStr("a")>>, <<>>, <<>>, <<Ret>>)}

----------------------------------------------------------------------------
(* bob2py: generate, the loop over scheme_functions, _function and the     *)
(* op_ handlers, one Bob instruction a step.                               *)

InitGen ==
    /\ exprlist = <<>>
    /\ phase = "idle"
    /\ error = "none"
    /\ codes = {}
    /\ pyc = {}
    /\ frames = <<>>
    /\ result = Unbound
    /\ executed = <<>>
    /\ lastjump = [value |-> Unbound, taken |-> FALSE]
    /\ cobj = Null
    /\ sphase = "idle"
    /\ stream = <<>>
    /\ decoded = Null
    /\ bobcode \in BobCodes
    /\ gphase = "start"
    /\ gerror = "none"
    /\ self_ops = <<>>
    /\ scheme_functions = <<>>
    /\ loop_i = 0
    /\ env = <<>>
    /\ addr = 0
    /\ labels = {}
    /\ translated = <<>>
    /\ embedded = <<>>

\* generate, up to the loop: the list of one entry, the global
\* environment, the preamble
generate ==
    /\ gphase = "start"
    /\ self_ops' = instr("BUILD_LIST", IntV(0)) \o instr("STORE_FAST", NameV("S"))
                   \o instr("LOAD_CONST", NoneV) \o instr("STORE_FAST", NameV("F"))
    /\ scheme_functions' = <<[label |-> 0, bobcode |-> bobcode, func_name |-> "__main__"]>>
    /\ env' = GlobalEnv
    /\ loop_i' = 0
    /\ gphase' = "loop"
    /\ UNCHANGED <<bobcode, gerror, addr, labels, translated, embedded>>
    /\ UNCHANGED pyvars
    /\ UNCHANGED servars

\* one turn of the loop up to the dispatch: the label of the entry, then
\* _function's child environment, frame setup and labels
function ==
    /\ gphase = "loop"
    /\ loop_i < Len(scheme_functions)
    /\ LET \* a constant that is no code object has no args: AttributeError
           a      == IF CurCode.tag # "CodeObject"
                     THEN [err |-> "AttributeError", env |-> env]
                     ELSE set_args(Environment(env), CurCode.args, 1)
           label  == <<[op |-> "LABEL", arg |-> LabelV(scheme_functions[loop_i + 1].label)]>>
           jumps  == {k \in 1..Len(CurCode.code) :
                          CurCode.code[k].opcode \in {OP_JUMP, OP_FJUMP}}
       IN  /\ translated' = Append(translated, CurCode)
           /\ IF a.err # "ok"
              THEN /\ gphase' = "failed"
                   /\ gerror' = a.err
                   /\ self_ops' = self_ops \o label
                   /\ UNCHANGED <<env, addr, labels>>
              ELSE /\ gphase' = "body"
                   /\ env' = a.env
                   /\ self_ops' = self_ops \o label
                          \o instr("LOAD_FAST", NameV("F")) \o instr("LOAD_CONST", NoneV)
                          \o instr("LOAD_CONST", NoneV) \o instr("BUILD_LIST", IntV(2))
                          \o instr("BUILD_LIST", IntV(2)) \o instr("STORE_FAST", NameV("F"))
                          \o instr("LOAD_FAST", NameV("F")) \o instr("PRINT_EXPR", NoneV)
                   /\ labels' = {CurCode.code[k].arg.v : k \in jumps}
                   /\ addr' = 0
                   /\ UNCHANGED gerror
    /\ UNCHANGED <<bobcode, scheme_functions, loop_i, embedded>>
    /\ UNCHANGED pyvars
    /\ UNCHANGED servars

op_const ==
    /\ OpStep(OP_CONST)
    /\ IF LabelHere THEN GenFail("TypeError", <<>>)
       ELSE IF ~InRange(CurCode.constants, CurBob.arg.v) THEN GenFail("IndexError", <<>>)
       ELSE LET const == CurCode.constants[CurBob.arg.v + 1]
            IN  IF const.tag \in {"Number", "Boolean"}
                THEN Advance(PushOpen \o instr("LOAD_CONST", expr_value(const))
                             \o PushClose)
                ELSE GenFail("AssertionError", <<>>)
    /\ UNCHANGED <<bobcode, scheme_functions, loop_i, env, labels, translated, embedded>>
    /\ UNCHANGED pyvars
    /\ UNCHANGED servars

op_loadvar ==
    /\ OpStep(OP_LOADVAR)
    /\ IF LabelHere THEN GenFail("TypeError", <<>>)
       ELSE IF ~InRange(CurCode.varnames, CurBob.arg.v) THEN GenFail("IndexError", <<>>)
       ELSE LET name == CurCode.varnames[CurBob.arg.v + 1].name
                b    == lookup_var(env, name)
            IN  CASE b = NoBinding -> GenFail("KeyError", <<>>)
                  [] b.type = "BUILTIN" ->
                         GenFail(bi_add(CurBob.arg.v).err, bi_add(CurBob.arg.v).ops)
                  [] b.type = "ARG" ->
                         Advance(PushOpen \o instr("LOAD_FAST", NameV("S"))
                                 \o instr("LOAD_CONST", IntV(-1 - b.arg.v))
                                 \o instr("BINARY_SUBSCR", NoneV) \o PushClose)
                  [] b.type = "LOCAL" ->
                         Advance(PushOpen \o instr("LOAD_FAST", NameV("F"))
                                 \o instr("LOAD_CONST", IntV(1))
                                 \o instr("BINARY_SUBSCR", NoneV)
                                 \o instr("LOAD_CONST", b.arg)
                                 \o instr("BINARY_SUBSCR", NoneV) \o PushClose)
    /\ UNCHANGED <<bobcode, scheme_functions, loop_i, env, labels, translated, embedded>>
    /\ UNCHANGED pyvars
    /\ UNCHANGED servars

\* no lookup: STORE_FAST of the name, whatever the environment holds
op_storevar ==
    /\ OpStep(OP_STOREVAR)
    /\ IF LabelHere THEN GenFail("TypeError", <<>>)
       ELSE IF ~InRange(CurCode.varnames, CurBob.arg.v) THEN GenFail("IndexError", <<>>)
       ELSE Advance(instr("STORE_FAST", NameV(CurCode.varnames[CurBob.arg.v + 1].name)))
    /\ UNCHANGED <<bobcode, scheme_functions, loop_i, env, labels, translated, embedded>>
    /\ UNCHANGED pyvars
    /\ UNCHANGED servars

op_defvar ==
    /\ OpStep(OP_DEFVAR)
    /\ IF LabelHere THEN GenFail("TypeError", <<>>) /\ env' = env
       ELSE IF ~InRange(CurCode.varnames, CurBob.arg.v)
            THEN GenFail("IndexError", <<>>) /\ env' = env
       ELSE LET l == local_index(env, CurCode.varnames[CurBob.arg.v + 1].name)
            IN  IF l.err # "ok" THEN GenFail(l.err, <<>>) /\ env' = env
                ELSE /\ env' = l.env
                     /\ Advance(instr("LOAD_FAST", NameV("S"))
                                \o instr("LOAD_ATTR", NameV("pop"))
                                \o instr("CALL_FUNCTION", IntV(0))
                                \o instr("LOAD_FAST", NameV("F"))
                                \o instr("LOAD_CONST", IntV(1))
                                \o instr("BINARY_SUBSCR", NoneV)
                                \o instr("LOAD_CONST", IntV(l.idx))
                                \o instr("STORE_SUBSCR", NoneV))
    /\ UNCHANGED <<bobcode, scheme_functions, loop_i, labels, translated, embedded>>
    /\ UNCHANGED pyvars
    /\ UNCHANGED servars

op_pop ==
    /\ OpStep(OP_POP)
    /\ IF LabelHere THEN GenFail("TypeError", <<>>)
       ELSE Advance(instr("POP_TOP", NoneV))
    /\ UNCHANGED <<bobcode, scheme_functions, loop_i, env, labels, translated, embedded>>
    /\ UNCHANGED pyvars
    /\ UNCHANGED servars

\* labels is a local of _function, no name of op_jump: NameError
op_jump ==
    /\ OpStep(OP_JUMP)
    /\ IF LabelHere THEN GenFail("TypeError", <<>>)
       ELSE GenFail("NameError", <<>>)
    /\ UNCHANGED <<bobcode, scheme_functions, loop_i, env, labels, translated, embedded>>
    /\ UNCHANGED pyvars
    /\ UNCHANGED servars

op_fjump ==
    /\ OpStep(OP_FJUMP)
    /\ IF LabelHere THEN GenFail("TypeError", <<>>)
       ELSE GenFail("NameError", <<>>)
    /\ UNCHANGED <<bobcode, scheme_functions, loop_i, env, labels, translated, embedded>>
    /\ UNCHANGED pyvars
    /\ UNCHANGED servars

\* the entry is appended first; func_idx is the length of the list after it
op_function ==
    /\ OpStep(OP_FUNCTION)
    /\ IF LabelHere
       THEN GenFail("TypeError", <<>>) /\ UNCHANGED <<scheme_functions, embedded>>
       ELSE IF ~InRange(CurCode.constants, CurBob.arg.v)
            THEN GenFail("IndexError", <<>>) /\ UNCHANGED <<scheme_functions, embedded>>
       ELSE LET func_bobcode == CurCode.constants[CurBob.arg.v + 1]
                fns == Append(scheme_functions,
                           [label |-> Len(scheme_functions), bobcode |-> func_bobcode,
                            func_name |-> "unknown"])
                func_idx == Len(fns)
            IN  /\ scheme_functions' = fns
                /\ embedded' = Append(embedded,
                                      [idx |-> func_idx, code |-> func_bobcode])
                /\ Advance(PushOpen \o instr("LOAD_CONST", IntV(func_idx))
                           \o instr("LOAD_CONST", NoneV)
                           \o instr("BUILD_TUPLE", IntV(2)) \o PushClose)
    /\ UNCHANGED <<bobcode, loop_i, env, labels, translated>>
    /\ UNCHANGED pyvars
    /\ UNCHANGED servars

\* pass
op_call ==
    /\ OpStep(OP_CALL)
    /\ IF LabelHere THEN GenFail("TypeError", <<>>)
       ELSE Advance(<<>>)
    /\ UNCHANGED <<bobcode, scheme_functions, loop_i, env, labels, translated, embedded>>
    /\ UNCHANGED pyvars
    /\ UNCHANGED servars

op_return ==
    /\ OpStep(OP_RETURN)
    /\ IF LabelHere THEN GenFail("TypeError", <<>>)
       ELSE Advance(instr("RETURN_VALUE", NoneV))
    /\ UNCHANGED <<bobcode, scheme_functions, loop_i, env, labels, translated, embedded>>
    /\ UNCHANGED pyvars
    /\ UNCHANGED servars

\* the end of _function: the frame teardown; then i += 1
function_end ==
    /\ gphase = "body"
    /\ addr = Len(CurCode.code)
    /\ self_ops' = self_ops \o instr("LOAD_FAST", NameV("F")) \o instr("LOAD_CONST", IntV(0))
                   \o instr("BINARY_SUBSCR", NoneV) \o instr("STORE_FAST", NameV("F"))
    /\ env' = SubSeq(env, 1, Len(env) - 1)
    /\ loop_i' = loop_i + 1
    /\ gphase' = "loop"
    /\ UNCHANGED <<bobcode, gerror, scheme_functions, addr, labels, translated, embedded>>
    /\ UNCHANGED pyvars
    /\ UNCHANGED servars

\* a loop that runs over the list as it was when the loop began
generate_end_snapshot ==
    /\ gphase = "loop"
    /\ loop_i >= 1
    /\ self_ops' = self_ops \o instr("LOAD_CONST", NoneV) \o instr("RETURN_VALUE", NoneV)
    /\ gphase' = "done"
    /\ UNCHANGED <<bobcode, gerror, scheme_functions, loop_i, env, addr, labels,
                   translated, embedded>>
    /\ UNCHANGED pyvars
    /\ UNCHANGED servars

\* the loop ends: the Code object over self.ops, then the postamble
generate_end ==
    /\ gphase = "loop"
    /\ loop_i >= Len(scheme_functions)
    /\ self_ops' = self_ops \o instr("LOAD_CONST", NoneV) \o instr("RETURN_VALUE", NoneV)
    /\ gphase' = "done"
    /\ UNCHANGED <<bobcode, gerror, scheme_functions, loop_i, env, addr, labels,
                   translated, embedded>>
    /\ UNCHANGED pyvars
    /\ UNCHANGED servars

NextGen ==
    \/ generate
    \/ function
    \/ op_const
    \/ op_loadvar
    \/ op_storevar
    \/ op_defvar
    \/ op_pop
    \/ op_jump
    \/ op_fjump
    \/ op_function
    \/ op_call
    \/ op_return
    \/ function_end
    \/ generate_end

SpecGen == InitGen /\ [][NextGen]_vars

\* generate is one sequential call: whatever step is next is taken
SpecGenLive == SpecGen /\ WF_vars(NextGen)

----------------------------------------------------------------------------
(* Properties of the compiler and of the code it emits.                    *)

Finished == phase \in {"done", "failed"}

\* the offsets of the module's code that were executed
ModuleOffsets == {executed[k][2] : k \in {j \in DOMAIN executed : executed[j][1] = 0}}

\* the stack depths with which the code, entered with depth 0, reaches a
\* RETURN_VALUE (or pops from an empty stack, or runs off its end)
ReturnDepths(ops) ==
    {w[2] : w \in {x \in Walk(ops, 0, 0) :
                       x[1] = -1 \/ ops[x[1] + 1].op = "RETURN_VALUE"}}

\* C1: the code of every compiled code object reaches each of its returns
\* with exactly one value on the stack above the depth at entry.
C1_StackBalance ==
    \A c \in codes : ReturnDepths(to_code(c).ops) = {1}

\* C3: after (define x v), a reference to x in the same program evaluates
\* to v: the program (define x v) x runs to completion and yields v.
C3_DefineThenReference ==
    \A v \in Lits \cup {Number(5)} :
        (exprlist = <<Define("x", v), Symbol("x")>> /\ Finished)
            => (phase = "done" /\ result = expr_value(v))

\* C4: applying (lambda (a b) (+ a b)) to two numbers binds them to a and
\* b and yields their sum; + comes from the outermost environment.
C4_LambdaApplication ==
    \A n, m \in 0..4 :
        (/\ exprlist = <<App(Lambda(<<Symbol("a"), Symbol("b")>>,
                                    <<Sum(Symbol("a"), Symbol("b"))>>),
                             <<Number(n), Number(m)>>)>>
         /\ Finished)
            => (phase = "done" /\ result = IntV(n + m))

\* C5: an if evaluates its predicate once and then exactly one branch, the
\* alternative when the predicate is boolean false and the consequent
\* otherwise; control then continues after the whole if.
C5_IfExactlyOneBranch ==
    \A p \in Lits :
        (exprlist = <<If(p, Number(1), Number(MaxNum))>> /\ phase = "done") =>
            LET ops    == CodeOf(pyc, 0).ops
                else   == ops[2].arg.v
                after  == ops[else].arg.v
                conseq == 2..(else - 2)
                alt    == else..(after - 1)
            IN  /\ Cardinality({k \in DOMAIN executed : executed[k][2] = 0}) = 1
                /\ IF p = Boolean(FALSE)
                   THEN alt \subseteq ModuleOffsets /\ ModuleOffsets \cap conseq = {}
                   ELSE conseq \subseteq ModuleOffsets /\ ModuleOffsets \cap alt = {}
                /\ after \in ModuleOffsets
                /\ result = IF p = Boolean(FALSE) THEN IntV(MaxNum) ELSE IntV(1)

\* C6: the conditional jump transfers control exactly when the value it
\* pops is boolean false; 0 and null fall through.
C6_OnlyFalseJumps ==
    lastjump.taken <=> lastjump.value = BoolV(FALSE)

\* C7: in every code object the compiler produced, every jump target is an
\* offset of that code object, 0 <= t < len(code): every label is followed
\* by an instruction of the same code object.
C7_JumpBounds ==
    \A c \in codes :
        /\ \A k \in 1..Len(c.ops) :
               IsLabel(c.ops[k]) => \E j \in (k + 1)..Len(c.ops) : ~IsLabel(c.ops[j])
        /\ LET a == to_code(c).ops
           IN  \A k \in 1..Len(a) :
                   IsJump(a[k]) => (0 <= a[k].arg.v /\ a[k].arg.v < Len(a))

\* C7 witness: a lambda body that ends in an if, and a module with nested
\* ifs whose last label stands right before the final return.
C7_Witness ==
    /\ phase = "compiled"
    /\ \E c \in codes :
           LET a == to_code(c).ops
           IN  /\ Cardinality({k \in 1..Len(a) : IsJump(a[k])}) >= 4
               /\ \E k \in 1..Len(a) : IsJump(a[k]) /\ a[k].arg.v = Len(a) - 1

\* C8: compiling (set! x e) fails when x was never defined anywhere in
\* the scope chain: no code comes out of the compilation.
C8_AssignUndefinedFails ==
    \A e \in Lits :
        (exprlist = <<SetBang("x", e)>> /\ phase # "parsed")
            => (phase = "failed" /\ codes = {})

RECURSIVE Unrecognized(_)
RECURSIVE AnyUnrecognized(_, _)
\* some expression the compiler is to compile has no rule, or is a lambda
\* with a parameter that is no symbol
Unrecognized(e) ==
    CASE e.tag = "Null" -> TRUE
      [] e.tag \in {"Number", "Boolean", "Symbol", "quote"} -> FALSE
      [] e.tag \in {"set!", "define"} -> Unrecognized(e.val)
      [] e.tag = "if" -> \/ Unrecognized(e.predicate)
                         \/ Unrecognized(e.consequent)
                         \/ Unrecognized(e.alternative)
      [] e.tag = "cond" -> \E k \in 1..Len(e.clauses) :
                               Unrecognized(e.clauses[k].test)
                               \/ Unrecognized(e.clauses[k].action)
      [] e.tag = "let" -> AnyUnrecognized(e.inits, 1) \/ AnyUnrecognized(e.letbody, 1)
      [] e.tag = "lambda" -> \/ \E k \in 1..Len(e.parameters) : e.parameters[k].tag # "Symbol"
                             \/ AnyUnrecognized(e.body, 1)
      [] e.tag = "begin" -> AnyUnrecognized(e.actions, 1)
      [] e.tag = "application" -> Unrecognized(e.operator) \/ AnyUnrecognized(e.operands, 1)

AnyUnrecognized(es, k) ==
    k <= Len(es) /\ (Unrecognized(es[k]) \/ AnyUnrecognized(es, k + 1))

\* C9: compile raises CompileError when any sub-expression is unrecognized
\* or a lambda parameter is no symbol, and then returns no code object.
C9_CompileErrorAllOrNothing ==
    (AnyUnrecognized(exprlist, 1) /\ phase # "parsed")
        => (phase = "failed" /\ error = "CompileError" /\ codes = {} /\ pyc = {})

----------------------------------------------------------------------------
(* Properties of the serializer.                                           *)

Fits24(a) == a = NoneV \/ (0 <= a.v /\ a.v < 16777216)

\* C2: decoding the serialized bytes of a code object gives back a code
\* object equal to it: opcodes, arguments (absent ones too), constants
\* (symbols as symbols, nested code objects whole), varnames, in order.
C2_RoundTrip ==
    (/\ sphase \in {"decoded", "rejected"}
     /\ \A k \in 1..Len(cobj.code) : Fits24(cobj.code[k].arg))
        => decoded = cobj

\* C10: the opcode goes to the high byte and the argument to the low three
\* bytes of the word; an argument that does not fit in 24 bits makes the
\* encoding fail, so no word is emitted whose low 24 bits differ from it.
C10_ArgumentRange ==
    sphase = "serialized" =>
        \A k \in 1..Len(cobj.code) :
            LET i == cobj.code[k]
                w == d_word(s_instruction(i), 2)
            IN  /\ Fits24(i.arg)
                /\ w \div 16777216 = i.opcode
                /\ w % 16777216 = (IF i.arg = NoneV THEN 0 ELSE i.arg.v)

\* the bytes e stand in b from position p on
Matches(b, p, e) == p + Len(e) - 1 <= Len(b) /\ SubSeq(b, p, p + Len(e) - 1) = e

RECURSIVE LayoutCode(_, _, _)
RECURSIVE LayoutElems(_, _, _, _)

\* the position after the elements seq[k..] laid out from p on, 0 when the
\* bytes are not their encoding
LayoutElems(b, p, seq, k) ==
    IF k > Len(seq) THEN p
    ELSE IF seq[k].tag = "CodeObject"
         THEN LET q == LayoutCode(b, p, seq[k])
              IN  IF q = 0 THEN 0 ELSE LayoutElems(b, q, seq, k + 1)
         ELSE LET e == s_object(seq[k])
              IN  IF Matches(b, p, e) THEN LayoutElems(b, p + Len(e), seq, k + 1) ELSE 0

\* a sequence at p: the tag, a 4-byte little-endian length, and the elements,
\* whose encodings take exactly that many bytes
LayoutSeq(b, p, seq) ==
    IF p = 0 \/ p + 4 > Len(b) \/ b[p] # TYPE_SEQUENCE THEN 0
    ELSE LET n == b[p + 1] + 256 * b[p + 2] + 65536 * b[p + 3] + 16777216 * b[p + 4]
             q == LayoutElems(b, p + 5, seq, 1)
         IN  IF q = p + 5 + n THEN q ELSE 0

\* a code object at p: the tag, then name, args, constants, varnames, code
LayoutCode(b, p, co) ==
    IF p > Len(b) \/ b[p] # TYPE_CODEOBJECT \/ ~Matches(b, p + 1, s_string(co.coname))
    THEN 0
    ELSE LayoutSeq(b,
             LayoutSeq(b,
                 LayoutSeq(b,
                     LayoutSeq(b, p + 1 + Len(s_string(co.coname)), co.args),
                     co.constants),
                 co.varnames),
             co.code)

\* C11: the stream begins with the 4-byte little-endian magic word (low 16
\* bits 0x0B0B, high 16 bits the format version), followed by exactly one
\* CODEOBJECT value with the fields name, args, constants, varnames, code in
\* this order, every sequence carrying the byte length of its elements.
C11_StreamLayout ==
    sphase = "serialized" =>
        /\ Len(stream) >= 5
        /\ stream[1] + 256 * stream[2] = 2827
        /\ stream[3] + 256 * stream[4] = MAGIC_CONST \div 65536
        /\ LayoutCode(stream, 5, cobj) = Len(stream) + 1

\* C11 witness: a serialized code object with a nested code object among
\* its constants, whose sequences hold more bytes than elements.
C11_Witness ==
    /\ sphase = "serialized"
    /\ \E k \in 1..Len(cobj.constants) :
           /\ cobj.constants[k].tag = "CodeObject"
           /\ Len(cobj.constants[k].code) > 1
           /\ Len(cobj.constants[k].varnames) > 1
    /\ Len(stream) > 5 + Len(cobj.code)

RECURSIVE Sequenced(_, _, _)
\* the code of exprs[k..] in source order, a POP_TOP after each but the last
Sequenced(exprs, p, k) ==
    IF k = Len(exprs) THEN comp(exprs[k], Child(p, k)).ops
    ELSE comp(exprs[k], Child(p, k)).ops \o instr("POP_TOP", NoneV)
         \o Sequenced(exprs, p, k + 1)

\* C12: for the top-level expression list, a begin form or a lambda body
\* with k >= 1 sub-expressions, the emitted code is the code of each
\* sub-expression in source order with a pop after each of the first k-1
\* and none after the last, and the whole code of the last one is there.
C12_Sequencing ==
    phase = "compiled" =>
        /\ Len(exprlist) >= 1 =>
               CodeOf(codes, 0).ops
                   = Sequenced(exprlist, 0, 1) \o instr("RETURN_VALUE", NoneV)
        /\ \A k \in 1..Len(exprlist) :
               LET e == exprlist[k]
                   p == Child(0, k)
               IN  /\ (Len(exprlist) = 1 /\ e.tag = "begin" /\ Len(e.actions) >= 1) =>
                          CodeOf(codes, 0).ops
                              = Sequenced(e.actions, p, 1) \o instr("RETURN_VALUE", NoneV)
                   /\ (e.tag = "lambda" /\ Len(e.body) >= 1) =>
                          CodeOf(codes, p).ops
                              = Sequenced(e.body, p, 1) \o instr("RETURN_VALUE", NoneV)

\* C12 witness: a compiled lambda whose body has three expressions, the last
\* one an application of several instructions.
C12_Witness ==
    /\ phase = "compiled"
    /\ Len(exprlist) = 1
    /\ exprlist[1].tag = "lambda"
    /\ Len(exprlist[1].body) = 3
    /\ exprlist[1].body[3].tag = "application"
    /\ Len(CodeOf(codes, Child(0, 1)).ops) >= 8

RECURSIVE OperandCode(_, _, _)
\* the code of the operands es[k..] of the application at node p, in order
OperandCode(es, p, k) ==
    IF k > Len(es) THEN <<>>
    ELSE comp(es[k], Child(p, k + 1)).ops \o OperandCode(es, p, k + 1)

\* the value an operator or operand that is an atom or a lambda leaves on
\* the stack of the module
AtomValue(e, p) ==
    CASE e.tag \in {"Number", "Boolean"} -> expr_value(e)
      [] e.tag = "Symbol" -> Globals(e.name)
      [] e.tag = "lambda" -> FuncV(p)
      [] OTHER -> Unbound

\* C13: the code of an application with N operands is the operator's code,
\* then the code of each operand from left to right, then one call with
\* argument N; at the call the stack holds the callee below the N operand
\* values in the order they were written.
C13_ApplicationOrder ==
    (/\ Len(exprlist) = 1
     /\ exprlist[1].tag = "application"
     /\ phase \in {"compiled", "written", "running", "done"}) =>
        LET e == exprlist[1]
            p == Child(0, 1)
            N == Len(e.operands)
        IN  /\ CodeOf(codes, 0).ops
                   = comp(e.operator, Child(p, 1)).ops
                     \o OperandCode(e.operands, p, 1)
                     \o instr("CALL_FUNCTION", IntV(N))
                     \o instr("RETURN_VALUE", NoneV)
            /\ (Len(frames) = 1 /\ At("CALL_FUNCTION")
                 /\ \A k \in 1..N : e.operands[k].tag \in {"Number", "Boolean"}) =>
                   /\ Len(Top.stack) = N + 1
                   /\ Top.stack[1] = AtomValue(e.operator, Child(p, 1))
                   /\ \A k \in 1..N : Top.stack[1 + k] = expr_value(e.operands[k])

\* C13 witness: the call of an application with two different operands is
\* about to run.
C13_Witness ==
    /\ Len(exprlist) = 1
    /\ exprlist[1].tag = "application"
    /\ Len(exprlist[1].operands) = 2
    /\ Len(frames) = 1
    /\ At("CALL_FUNCTION")
    /\ Peek(0).t = "int"
    /\ Peek(1).t = "int"
    /\ Peek(0) # Peek(1)

----------------------------------------------------------------------------
(* Properties of the code generator of bob2py.                             *)

\* the handler of a variable instruction is about to run on a name of varnames
VarStep(opcodes) ==
    /\ gphase = "body"
    /\ addr < Len(CurCode.code)
    /\ ~LabelHere
    /\ CurBob.opcode \in opcodes
    /\ InRange(CurCode.varnames, CurBob.arg.v)

VarName == CurCode.varnames[CurBob.arg.v + 1].name

RECURSIVE FirstScope(_, _)
\* the innermost scope of the chain that binds the name, 0 when none does
FirstScope(chain, name) ==
    IF chain = <<>> THEN 0
    ELSE IF chain[Len(chain)].vars[name] # NoBinding THEN Len(chain)
         ELSE FirstScope(SubSeq(chain, 1, Len(chain) - 1), name)

\* the Python instructions the step appends to self.ops
Emitted == SubSeq(self_ops', Len(self_ops) + 1, Len(self_ops'))

\* the step loads the binding b: the constant that addresses it is emitted
LoadsBinding(b) ==
    LET c == IF b.type = "ARG" THEN IntV(-1 - b.arg.v) ELSE b.arg
        f == IF b.type = "ARG" THEN "S" ELSE "F"
    IN  \E j \in 2..(Len(Emitted) - 1) :
            /\ Emitted[j] = [op |-> "LOAD_CONST", arg |-> c]
            /\ Emitted[j + 1] = [op |-> "BINARY_SUBSCR", arg |-> NoneV]
            /\ \E h \in 1..(j - 1) : Emitted[h] = [op |-> "LOAD_FAST", arg |-> NameV(f)]

\* C14: LOADVAR and STOREVAR resolve the name along the scope chain from the
\* current scope outward and work on the first scope that binds it; when no
\* scope binds it the operation fails with an unbound-variable error.
C14_VariableResolution ==
    [][ VarStep({OP_LOADVAR, OP_STOREVAR}) =>
            LET k == FirstScope(env, VarName)
            IN  IF k = 0
                THEN gphase' = "failed" /\ gerror' = "KeyError"
                ELSE /\ CurBob.opcode = OP_STOREVAR => gphase' = "body"
                     /\ (CurBob.opcode = OP_LOADVAR
                          /\ env[k].vars[VarName].type \in {"ARG", "LOCAL"}) =>
                            (gphase' = "body" /\ LoadsBinding(env[k].vars[VarName]))
      ]_vars

\* C15: DEFVAR succeeds for every name, creates or overwrites the binding of
\* the current scope only, leaves every enclosing scope as it was, and makes
\* a later lookup from the current scope find the new binding.
C15_DefvarBindsCurrent ==
    [][ VarStep({OP_DEFVAR}) =>
            LET cur == Len(env)
            IN  /\ gphase' = "body"
                /\ env'[cur].vars[VarName].type = "LOCAL"
                /\ \A n \in Names \ {VarName} : env'[cur].vars[n] = env[cur].vars[n]
                /\ SubSeq(env', 1, cur - 1) = SubSeq(env, 1, cur - 1)
                /\ lookup_var(env', VarName) = env'[cur].vars[VarName]
      ]_vars

\* C16: the index op_function embeds in the pushed (index, closure) value is
\* the position in scheme_functions of the entry that holds the nested code
\* object (the top-level entry at position 0, the entry of the k-th FUNCTION
\* translated at position k); every embedded index is a valid position, no
\* two embedded indexes are equal, and none is the top-level entry's.
C16_FunctionIndex ==
    \A k \in DOMAIN embedded :
        LET e == embedded[k]
        IN  /\ e.idx = k
            /\ e.idx < Len(scheme_functions)
            /\ scheme_functions[e.idx + 1].bobcode = e.code
            /\ e.idx # 0
            /\ \A j \in DOMAIN embedded : j # k => embedded[j].idx # e.idx

RECURSIVE Refs(_)
RECURSIVE RefsFrom(_, _)
\* the code objects of the tree: co, then, for each FUNCTION instruction of
\* co in order, those of the constant it names
RefsFrom(co, k) ==
    IF k > Len(co.code) THEN <<>>
    ELSE (IF co.code[k].opcode = OP_FUNCTION /\ InRange(co.constants, co.code[k].arg.v)
          THEN Refs(co.constants[co.code[k].arg.v + 1]) ELSE <<>>)
         \o RefsFrom(co, k + 1)

Refs(co) == <<co>> \o (IF co.tag = "CodeObject" THEN RefsFrom(co, 1) ELSE <<>>)

Count(seq, c) == Cardinality({k \in DOMAIN seq : seq[k] = c})

\* the entries of scheme_functions have been passed to _function, each once
\* and in the order of the list, and they are the code objects of the tree,
\* each as often as FUNCTION instructions reach it
WorklistComplete ==
    /\ translated = [k \in 1..Len(scheme_functions) |-> scheme_functions[k].bobcode]
    /\ Len(translated) = Len(Refs(bobcode))
    /\ \A k \in DOMAIN Refs(bobcode) :
           Count(translated, Refs(bobcode)[k]) = Count(Refs(bobcode), Refs(bobcode)[k])

====
